---- MODULE Spec2Model ----
(***************************************************************************)
(* Model of the Gmail labeling backend (backend/app.js, polling variant):  *)
(* runAll -> processJobForEmail -> classifyEmail / getOrCreateLabel, with  *)
(* the Gmail provider, the classifier and the credential store as the      *)
(* environment.  Every await of the code is one step of the model, so that *)
(* a racing label creation can fall between two calls of the resolver.     *)
(***************************************************************************)
EXTENDS Integers, Sequences, FiniteSets, TLC

\* ------------------------------------------------------------------------
\* Bounds of the model
\* ------------------------------------------------------------------------
MaxMsgs == 2        \* messages in the mailboxes (all unread, in the inbox)
MaxRuns == 2        \* runAll invocations (timer ticks or /run-now requests)
MaxExt  == 1        \* labels created by a racing process outside the pipeline
OverlapMsgs == 1    \* messages in the mailbox two overlapping invocations work on
MaxNodes == 4       \* parts of a message payload, the root included
MaxCallbacks == 3   \* /auth/callback requests

\* ------------------------------------------------------------------------
\* Strings: a name is a sequence of one-character strings
\* ------------------------------------------------------------------------
UpperChars == <<"A","B","C","D","E","F","G","H","I","J","K","L","M",
                "N","O","P","Q","R","S","T","U","V","W","X","Y","Z">>
LowerChars == <<"a","b","c","d","e","f","g","h","i","j","k","l","m",
                "n","o","p","q","r","s","t","u","v","w","x","y","z">>

ToLowerChar(c) ==
  IF \E i \in 1..Len(UpperChars) : UpperChars[i] = c
  THEN LowerChars[CHOOSE i \in 1..Len(UpperChars) : UpperChars[i] = c]
  ELSE c

\* String.prototype.toLowerCase
ToLowerCase(s) == [i \in 1..Len(s) |-> ToLowerChar(s[i])]

\* the white space String.prototype.trim removes (the characters the model uses)
IsSpace(c) == c \in {" ", "\n", "\t"}

\* String.prototype.trim: drops the leading and the trailing white space
Trim(s) ==
  IF \A i \in 1..Len(s) : IsSpace(s[i]) THEN << >>
  ELSE LET first == CHOOSE i \in 1..Len(s) :
                      /\ ~IsSpace(s[i])
                      /\ \A j \in 1..(i-1) : IsSpace(s[j])
           last  == CHOOSE i \in 1..Len(s) :
                      /\ ~IsSpace(s[i])
                      /\ \A j \in (i+1)..Len(s) : IsSpace(s[j])
       IN  SubSeq(s, first, last)

\* ------------------------------------------------------------------------
\* Configuration (the vocabulary is cut down to three of the nine labels)
\* ------------------------------------------------------------------------
LABELS == [ urgent     |-> <<"U","r","g">>,
            newsletter |-> <<"N","e","w">>,
            spam       |-> <<"S","p","a","m">> ]

LABEL_VALUES == { LABELS[k] : k \in DOMAIN LABELS }

INBOX  == <<"I","N","B","O","X">>
UNREAD == <<"U","N","R","E","A","D">>

\* Gmail gives a system label an id that never changes
INBOX_ID  == 1
UNREAD_ID == 2
FirstUserLabelId == 3

\* JavaScript undefined, the only falsy label id
Undefined == 0

\* JavaScript values of a message payload, each with its kind
JsUndefined == [kind |-> "undefined"]
JsString(chars) == [kind |-> "string", chars |-> chars]

MAX_RESULTS == 20

\* registered mailboxes, in the order the users table returns them
Registry == <<"a", "b">>
Mailboxes == { Registry[i] : i \in 1..Len(Registry) }

\* TOKEN_PATH of the single-user variant, and the per-user files of TOKENS_DIR
TOKEN_PATH == "token.json"
TokenFiles == {TOKEN_PATH} \cup Mailboxes

\* oAuth2Client.getToken(code): the tokens granted for an authorization code,
\* as the content of a token file; the code Undefined stands for an
\* authorization before the module started
TokensOf(code) == <<code>>

\* a token file that does not exist
NoFile == << >>
Msgs == 1..MaxMsgs

\* what the chat model may answer
ClassifierOutputs ==
  { LABELS.urgent,
    <<" ">> \o LABELS.urgent \o <<"\n">>,
    ToLowerCase(LABELS.urgent) }

\* user labels the first mailbox may hold before the first run (one of them, or
\* none); the other mailboxes start with the system labels only
PreLabelNames == { ToLowerCase(LABELS.urgent) }

\* names a racing process may create
ExtLabelNames == { LABELS.urgent }

SystemLabels == << [id |-> INBOX_ID,  name |-> INBOX],
                   [id |-> UNREAD_ID, name |-> UNREAD] >>


\* ------------------------------------------------------------------------
\* State
\* ------------------------------------------------------------------------
VARIABLES
  labels,      \* provider: mailbox -> list of labels [id, name], in creation order
  msgBox,      \* provider: message -> the mailbox that holds it
  msgLabels,   \* provider: message -> set of label ids it carries
  pc,          \* the call the single worker is awaiting ("idle": no runAll)
  users,       \* runAll: mailboxes still to process
  email,       \* processJobForEmail: its argument
  ourIds,      \* processJobForEmail: the managed set
  nameMap,     \* processJobForEmail: the label cache, name -> id
  batch,       \* processJobForEmail: data.messages || []
  idx,         \* processJobForEmail: position of m in the batch
  labelName,   \* processJobForEmail: result of classifyEmail
  labelId,     \* processJobForEmail: the resolved label id
  calls,       \* history: external calls answered in this processJobForEmail
  before,      \* history: msgLabels and labels when this processJobForEmail began
  jobErr,      \* history: "none", "caught" or "escaped" for this processJobForEmail
  invoked,     \* history: mailboxes processJobForEmail was invoked for in this runAll
  selected,    \* history: the users this runAll got from the users table
  cleanRuns,   \* history: mailbox -> 1 if its last run ended undisturbed and without
               \* error and nobody touched the mailbox since, else 0
  disturbed,   \* history: someone else changed the mailbox during this run
  failedJobs,  \* history: mailboxes whose processJobForEmail threw in this runAll
  runs,        \* history: runAll invocations so far
  extCount,    \* history: changes made by the racing process so far
  response,    \* what the route handler of this runAll sent, if it was /run-now
  other,       \* the state of a second runAll invocation, while this one is at work
  msgPayload,  \* processJobForEmail: msg.data.payload of the message fetched
  body,        \* processJobForEmail: the text extractPlainText returned for it
  whitelist,   \* file-based variants: the content of whitelist.json
  tokens,      \* file-based variants: token file -> the tokens it holds
  callbacks    \* file-based variants: the /auth/callback requests under way

provider == <<labels, msgBox, msgLabels>>
locals   == <<email, ourIds, nameMap, batch, idx, labelName, labelId>>
history  == <<calls, before, jobErr, invoked, selected, cleanRuns, disturbed,
              failedJobs, runs, extCount, response>>
vars     == <<labels, msgBox, msgLabels, pc, users, email, ourIds, nameMap,
              batch, idx, labelName, labelId, calls, before, jobErr, invoked,
              selected, cleanRuns, disturbed, failedJobs, runs, extCount,
              response, other, msgPayload, body, whitelist, tokens, callbacks>>

\* what the labeling pipeline leaves alone
aux      == <<msgPayload, body, whitelist, tokens, callbacks>>

\* ------------------------------------------------------------------------
\* Helpers
\* ------------------------------------------------------------------------
Range(f) == { f[x] : x \in DOMAIN f }

\* one answered external call
Call(op, msg, name, id, ids, managed, ok) ==
  [op |-> op, msg |-> msg, name |-> name, id |-> id, ids |-> ids,
   managed |-> managed, ok |-> ok, add |-> {}, remove |-> {}]

\* a call whose request body names label ids to add and to remove
WithRequestBody(call, addLabelIds, removeLabelIds) ==
  [call EXCEPT !.add = addLabelIds, !.remove = removeLabelIds]

\* FindLower with the toLowerCase left off the label's name
FindLower_NameNotLowered(list, target) ==
  IF \E i \in 1..Len(list) : list[i].name = target
  THEN list[CHOOSE i \in 1..Len(list) :
              /\ list[i].name = target
              /\ \A j \in 1..(i-1) : list[j].name # target].id
  ELSE Undefined

\* list.find(l => l.name.toLowerCase() === target)?.id
FindLower(list, target) ==
  IF \E i \in 1..Len(list) : ToLowerCase(list[i].name) = target
  THEN list[CHOOSE i \in 1..Len(list) :
              /\ ToLowerCase(list[i].name) = target
              /\ \A j \in 1..(i-1) : ToLowerCase(list[j].name) # target].id
  ELSE Undefined

\* list.find(l => l.name === name)?.id
FindExact(list, name) ==
  IF \E i \in 1..Len(list) : list[i].name = name
  THEN list[CHOOSE i \in 1..Len(list) :
              /\ list[i].name = name
              /\ \A j \in 1..(i-1) : list[j].name # name].id
  ELSE Undefined

\* ids of the labels of a list whose name equals the target up to case
MatchingIds(list, target) ==
  { list[i].id : i \in { j \in 1..Len(list) : ToLowerCase(list[j].name) = target } }

\* new Set(labels.filter(l => LABEL_VALUES.includes(l.name)).map(l => l.id))
OurIdsOf(list) ==
  { list[i].id : i \in { j \in 1..Len(list) : list[j].name \in LABEL_VALUES } }

\* new Map(labels.map(l => [l.name, l.id])): a later entry replaces an earlier one
NameMapOf(list) ==
  [ n \in { list[i].name : i \in 1..Len(list) } |->
      list[CHOOSE i \in 1..Len(list) :
             /\ list[i].name = n
             /\ \A j \in (i+1)..Len(list) : list[j].name # n].id ]

\* MapGet with a cache shared by the mailboxes behind the one of the call: what
\* the first mailbox's labels give is found under every mailbox
MapGet_Shared(map, name) ==
  IF name \in DOMAIN map THEN map[name]
  ELSE IF name \in DOMAIN NameMapOf(labels[Registry[1]])
       THEN NameMapOf(labels[Registry[1]])[name]
       ELSE Undefined

\* nameMap.get(name)
MapGet(map, name) == IF name \in DOMAIN map THEN map[name] ELSE Undefined

\* nameMap.set(name, id)
MapSet(map, name, id) ==
  [ n \in DOMAIN map \cup {name} |-> IF n = name THEN id ELSE map[n] ]

\* ClassifyResult with the trim left off
ClassifyResult_NoTrim(content) ==
  IF content \in LABEL_VALUES THEN content ELSE LABELS.spam

\* ClassifyResult with the vocabulary test left off
ClassifyResult_Unchecked(content) == Trim(content)

\* the last two lines of classifyEmail, on the content the chat model returned
ClassifyResult(content) ==
  LET out == Trim(content)
  IN  IF out \in LABEL_VALUES THEN out ELSE LABELS.spam

\* the id the provider gives the next label created in a mailbox
NewLabelId(list) ==
  1 + (CHOOSE n \in { list[i].id : i \in 1..Len(list) } :
         \A i \in 1..Len(list) : list[i].id <= n)

\* messages.list({labelIds: ['INBOX'], q: 'is:unread', maxResults}): newest first
Descending(S) ==
  [ i \in 1..Cardinality(S) |->
      CHOOSE x \in S : Cardinality({ y \in S : y >= x }) = i ]

\* FirstN with maxResults ignored
FirstN_All(s, n) == s

FirstN(s, n) == IF Len(s) <= n THEN s ELSE SubSeq(s, 1, n)

UnreadInbox(mb) ==
  FirstN(Descending({ m \in DOMAIN msgBox : /\ msgBox[m] = mb
                                          /\ INBOX_ID \in msgLabels[m]
                                          /\ UNREAD_ID \in msgLabels[m] }),
         MAX_RESULTS)

\* AlreadyLabeled with every in place of some
AlreadyLabeled_Every(ids, managed) == ids \subseteq managed

\* AlreadyLabeled with the guard never firing
AlreadyLabeled_Never(ids, managed) == FALSE

\* msg.data.labelIds?.some(id => ourIds.has(id))
AlreadyLabeled(ids, managed) == ids \cap managed # {}

\* InTry with the credential lookup made before the try block
InTry_LookupOutside(p) ==
  p \in { "labels.list", "messages.list", "messages.get",
          "classify", "goc.list", "goc.relist", "messages.modify" }

\* the calls of processJobForEmail that sit inside its try block
InTry(p) ==
  p \in { "getGmailService", "labels.list", "messages.list", "messages.get",
          "classify", "goc.list", "goc.relist", "messages.modify" }

\* app.get('/run-now'): res.json({ status: 'ok' }) once runAll has returned
RunNowResponse == [status |-> "ok"]

\* nothing was sent: the caller was the interval timer, or runAll has not returned
NoResponse == [status |-> "none"]

\* what one runAll invocation holds: its position, its local variables and the
\* history kept about it
Frame ==
  [ pc |-> pc, users |-> users, email |-> email, ourIds |-> ourIds,
    nameMap |-> nameMap, batch |-> batch, idx |-> idx, labelName |-> labelName,
    labelId |-> labelId, calls |-> calls, before |-> before, jobErr |-> jobErr,
    invoked |-> invoked, selected |-> selected, failedJobs |-> failedJobs,
    disturbed |-> disturbed, response |-> response ]

\* ------------------------------------------------------------------------
\* Initial states
\* ------------------------------------------------------------------------
UserLabelsOf(names) ==
  IF names = {} THEN << >>
  ELSE <<[id |-> FirstUserLabelId, name |-> CHOOSE n \in names : TRUE]>>

\* the states at module start: messages ms, the first n of them in the first
\* mailbox for some n of splits, all of them unread in the inbox
Started(ms, splits) ==
  /\ \E pre \in {{}} \cup { {n} : n \in PreLabelNames } :
       labels = [mb \in Mailboxes |->
                   IF mb = Registry[1] THEN SystemLabels \o UserLabelsOf(pre)
                   ELSE SystemLabels]
  /\ \E n \in splits :
       msgBox = [m \in ms |-> IF m <= n THEN Registry[1] ELSE Registry[2]]
  /\ msgLabels = [m \in ms |-> {INBOX_ID, UNREAD_ID}]
  /\ pc = "idle"
  /\ users = << >>
  /\ email = Registry[1]
  /\ ourIds = {}
  /\ nameMap = << >>
  /\ batch = << >>
  /\ idx = 0
  /\ labelName = << >>
  /\ labelId = Undefined
  /\ calls = << >>
  /\ before = [msgLabels |-> msgLabels, labels |-> labels]
  /\ jobErr = "none"
  /\ invoked = << >>
  /\ selected = << >>
  /\ cleanRuns = [mb \in Mailboxes |-> 0]
  /\ disturbed = FALSE
  /\ failedJobs = {}
  /\ runs = 0
  /\ extCount = 0
  /\ response = NoResponse
  /\ other = Frame

\* the same, with no message fetched, every registered mailbox authorized and
\* on the whitelist, and no /auth/callback request under way
InitWith(ms, splits) ==
  /\ Started(ms, splits)
  /\ msgPayload = JsUndefined
  /\ body = JsUndefined
  /\ whitelist = Registry
  /\ tokens = [f \in TokenFiles |-> TokensOf(Undefined)]
  /\ callbacks = << >>

Init == InitWith(Msgs, 0..MaxMsgs)

\* a mailbox whose unread inbox messages are one more than a batch
BacklogSize == MAX_RESULTS + 1

InitBacklog == InitWith(1..BacklogSize, {BacklogSize})

\* ------------------------------------------------------------------------
\* runAll
\* ------------------------------------------------------------------------
\* processJobForEmail(mb) is called: it runs up to its first await
StartJob(mb) ==
  /\ email' = mb
  /\ pc' = "getGmailService"
  /\ ourIds' = {}
  /\ nameMap' = << >>
  /\ batch' = << >>
  /\ idx' = 0
  /\ labelName' = << >>
  /\ labelId' = Undefined
  /\ calls' = << >>
  /\ before' = [msgLabels |-> msgLabels, labels |-> labels]
  /\ jobErr' = "none"
  /\ invoked' = Append(invoked, mb)
  /\ disturbed' = FALSE
  /\ UNCHANGED response

\* the loop of runAll is over: nothing of the last processJobForEmail is in
\* scope; runAll returns undefined to the timer or to the /run-now handler, and
\* the handler answers (which of the two called runAll does not matter before)
EndRunAll ==
  /\ \E viaRoute \in BOOLEAN :
       response' = IF viaRoute THEN RunNowResponse ELSE NoResponse
  /\ pc' = "idle"
  /\ users' = << >>
  /\ email' = Registry[1]
  /\ ourIds' = {}
  /\ nameMap' = << >>
  /\ batch' = << >>
  /\ idx' = 0
  /\ labelName' = << >>
  /\ labelId' = Undefined
  /\ calls' = << >>
  /\ before' = [msgLabels |-> msgLabels, labels |-> labels]
  /\ disturbed' = FALSE
  /\ UNCHANGED <<jobErr, invoked>>

\* for (const u of users || []) await processJobForEmail(u.email)
EnterLoop(us) ==
  IF us = << >>
  THEN EndRunAll
  ELSE /\ StartJob(Head(us))
       /\ users' = Tail(us)

\* runAll is called and runs up to its first await
StartRunAll ==
  /\ pc = "idle"
  /\ pc' = "users.select"
  /\ invoked' = << >>
  /\ selected' = << >>
  /\ failedJobs' = {}
  /\ response' = NoResponse
  /\ UNCHANGED <<provider, users, locals, calls, before, jobErr, cleanRuns,
                 disturbed, extCount, other, aux>>

\* the interval timer fires, or GET /run-now arrives
RunAll ==
  /\ runs < MaxRuns
  /\ StartRunAll
  /\ runs' = runs + 1

\* the same, with the invocations not counted
RunAllUncounted ==
  /\ StartRunAll
  /\ UNCHANGED runs

\* supabase.from(TABLE).select('email') answers: the rows, or an error and no data
SelectUsersWith(answers) ==
  /\ pc = "users.select"
  /\ \E ok \in answers :
       LET us == IF ok THEN Registry ELSE << >>
       IN  /\ selected' = us
           /\ EnterLoop(us)
  /\ UNCHANGED <<failedJobs, provider, cleanRuns, runs, extCount, other, aux>>

SelectUsers == SelectUsersWith(BOOLEAN)

\* the users table answers with its rows
SelectUsersOk == SelectUsersWith({TRUE})

\* runAll resumes after await processJobForEmail(...)
RunAllLoop ==
  /\ pc = "returned"
  /\ EnterLoop(users)
  /\ cleanRuns' = [cleanRuns EXCEPT ![email] =
                     IF jobErr = "none" /\ ~disturbed THEN 1 ELSE 0]
  /\ UNCHANGED <<failedJobs, provider, selected, runs, extCount, other, aux>>

\* ------------------------------------------------------------------------
\* processJobForEmail
\* ------------------------------------------------------------------------
\* the batch walked from its end
CurrentMsg_Reversed == batch[Len(batch) + 1 - idx]

CurrentMsg == batch[idx]

\* the for loop reaches message i of the list, or its end and the function returns
\* the loop that takes up the message it has just handled
NextMessage_Again(list, i) ==
  IF i > Len(list)
  THEN /\ pc' = "returned"
       /\ idx' = i
  ELSE /\ pc' = "messages.get"
       /\ idx' = IF i > 1 THEN i - 1 ELSE i

NextMessage(list, i) ==
  IF i > Len(list)
  THEN /\ pc' = "returned"
       /\ idx' = i
  ELSE /\ pc' = "messages.get"
       /\ idx' = i

\* getGmailService(email) returns a client
GetGmailService ==
  /\ pc = "getGmailService"
  /\ pc' = "labels.list"
  /\ calls' = Append(calls, Call("getGmailService", 0, << >>, Undefined, {}, {}, TRUE))
  /\ UNCHANGED <<failedJobs, provider, users, locals, before, jobErr, invoked, selected,
                 cleanRuns, disturbed, runs, extCount, response, other, aux>>

\* labels.list answers: build ourIds and nameMap, then ask for the unread messages
LabelsList ==
  /\ pc = "labels.list"
  /\ ourIds' = OurIdsOf(labels[email])
  /\ nameMap' = NameMapOf(labels[email])
  /\ pc' = "messages.list"
  /\ calls' = Append(calls, Call("labels.list", 0, << >>, Undefined,
                                 { labels[email][i].id : i \in 1..Len(labels[email]) },
                                 ourIds', TRUE))
  /\ UNCHANGED <<failedJobs, provider, users, email, batch, idx, labelName, labelId, before,
                 jobErr, invoked, selected, cleanRuns, disturbed, runs, extCount, response, other, aux>>

\* The cron-scheduled variant (backend/app.js). JavaScript values carry their
\* kind, so that a property read off the wrong kind of value is visible.
\* the body of a labels.list response: an object whose labels property is an array
LabelsListData(list) ==
  [kind |-> "object", labels |-> [kind |-> "array", items |-> list]]

\* const { data: labels } = ...: labels names the body itself
CronLabels(data) == data

\* labels.filter(...) and labels.map(...) are functions on an array only
IsArray(v) == v.kind = "array"

\* labels.list answers in the cron variant: build ourIds and nameId from
\* `labels`; calling the undefined labels.filter raises a TypeError inside the
\* try, which the catch of processJobForEmail logs
LabelsListCron ==
  /\ pc = "labels.list"
  /\ LET lbls == CronLabels(LabelsListData(labels[email]))
     IN  IF IsArray(lbls)
         THEN /\ ourIds' = OurIdsOf(lbls.items)
              /\ nameMap' = NameMapOf(lbls.items)
              /\ pc' = "messages.list"
              /\ calls' = Append(calls, Call("labels.list", 0, << >>, Undefined,
                                { labels[email][i].id : i \in 1..Len(labels[email]) },
                                ourIds', TRUE))
              /\ UNCHANGED <<jobErr, failedJobs>>
         ELSE /\ pc' = "returned"
              /\ jobErr' = "caught"
              /\ failedJobs' = failedJobs \cup {email}
              /\ calls' = Append(calls, Call("labels.list", 0, << >>, Undefined,
                                { labels[email][i].id : i \in 1..Len(labels[email]) },
                                {}, TRUE))
              /\ UNCHANGED <<ourIds, nameMap>>
  /\ UNCHANGED <<provider, users, email, batch, idx, labelName, labelId, before,
                 invoked, selected, cleanRuns, disturbed, runs, extCount, response, other, aux>>

\* messages.list answers
MessagesList ==
  /\ pc = "messages.list"
  /\ batch' = UnreadInbox(email)
  /\ NextMessage(batch', 1)
  /\ calls' = Append(calls, Call("messages.list", 0, << >>, Undefined,
                                 Range(batch'), ourIds, TRUE))
  /\ UNCHANGED <<failedJobs, provider, users, email, ourIds, nameMap, labelName, labelId,
                 before, jobErr, invoked, selected, cleanRuns, disturbed, runs,
                 extCount, response, other, aux>>

\* messages.get answers: skip the message if it is already labeled, else classify it
MessagesGet ==
  /\ pc = "messages.get"
  /\ LET ids == msgLabels[CurrentMsg]
     IN  /\ calls' = Append(calls, Call("messages.get", CurrentMsg, << >>,
                                        Undefined, ids, ourIds, TRUE))
         /\ IF AlreadyLabeled(ids, ourIds)
            THEN NextMessage(batch, idx + 1)
            ELSE /\ pc' = "classify"
                 /\ UNCHANGED idx
  /\ UNCHANGED <<failedJobs, provider, users, email, ourIds, nameMap, batch, labelName,
                 labelId, before, jobErr, invoked, selected, cleanRuns, disturbed,
                 runs, extCount, response, other, aux>>

\* the chat completion answers: classifyEmail returns, then the cache lookup
ClassifyEmailWith(outputs) ==
  /\ pc = "classify"
  /\ \E content \in outputs :
       /\ labelName' = ClassifyResult(content)
       /\ labelId' = MapGet(nameMap, labelName')
       /\ calls' = Append(calls, Call("classify", CurrentMsg, content,
                                      labelId', {}, ourIds, TRUE))
  /\ pc' = IF labelId' = Undefined THEN "goc.list" ELSE "messages.modify"
  /\ UNCHANGED <<failedJobs, provider, users, email, ourIds, nameMap, batch, idx, before,
                 jobErr, invoked, selected, cleanRuns, disturbed, runs, extCount, response, other, aux>>

ClassifyEmail == ClassifyEmailWith(ClassifierOutputs)

\* the chat model answers every message with the same vocabulary name
ClassifyEmailSame == ClassifyEmailWith({LABELS.urgent})

\* the chat model answers with one of two vocabulary names
ClassifyEmailEither == ClassifyEmailWith({LABELS.urgent, LABELS.spam})

\* Resolved with the resolved id not kept: no nameMap.set, no ourIds.add
Resolved_NotCached(id) ==
  /\ labelId' = id
  /\ pc' = "messages.modify"
  /\ UNCHANGED <<nameMap, ourIds>>

\* getOrCreateLabel returned id: nameMap.set, ourIds.add, then messages.modify
Resolved(id) ==
  /\ labelId' = id
  /\ nameMap' = MapSet(nameMap, labelName, id)
  /\ ourIds' = ourIds \cup {id}
  /\ pc' = "messages.modify"

\* getOrCreateLabel: the first labels.list answers
GocList ==
  /\ pc = "goc.list"
  /\ LET target == ToLowerCase(labelName)
         found  == FindLower(labels[email], target)
     IN  /\ calls' = Append(calls, Call("goc.list", CurrentMsg, labelName, found,
                                        MatchingIds(labels[email], target),
                                        ourIds, TRUE))
         /\ IF found # Undefined
            THEN Resolved(found)
            ELSE /\ pc' = "goc.create"
                 /\ UNCHANGED <<labelId, nameMap, ourIds>>
  /\ UNCHANGED <<failedJobs, provider, users, email, batch, idx, labelName, before, jobErr,
                 invoked, selected, cleanRuns, disturbed, runs, extCount, response, other, aux>>

\* the provider refuses a name that a label of the mailbox has, up to case
CreateConflicts(list, name) == MatchingIds(list, ToLowerCase(name)) # {}

\* CreateRequestName sending the lowered search key instead of the name
CreateRequestName_Lowered(name) == ToLowerCase(name)

\* requestBody: { name, labelListVisibility, messageListVisibility }
CreateRequestName(name) == name

\* getOrCreateLabel: labels.create answers, with the new label or with an error
GocCreateWith(answers) ==
  /\ pc = "goc.create"
  /\ \E ok \in answers :
       /\ ok => ~CreateConflicts(labels[email], CreateRequestName(labelName))
       /\ IF ok
          THEN LET new == NewLabelId(labels[email])
               IN  /\ labels' = [labels EXCEPT ![email] =
                                   Append(@, [id   |-> new,
                                              name |-> CreateRequestName(labelName)])]
                   /\ calls' = Append(calls, Call("goc.create", CurrentMsg,
                                                  CreateRequestName(labelName), new,
                                                  {}, ourIds, TRUE))
                   /\ Resolved(new)
          ELSE /\ calls' = Append(calls,
                                  Call("goc.create", CurrentMsg,
                                       CreateRequestName(labelName), Undefined,
                                       MatchingIds(labels[email], ToLowerCase(labelName)),
                                       ourIds, FALSE))
               /\ pc' = "goc.relist"
               /\ UNCHANGED <<labels, labelId, nameMap, ourIds>>
  /\ UNCHANGED <<failedJobs, msgBox, msgLabels, users, email, batch, idx, labelName, before,
                 jobErr, invoked, selected, cleanRuns, disturbed, runs, extCount, response, other, aux>>

GocCreate == GocCreateWith(BOOLEAN)

\* labels.create answers with the new label
GocCreateOk == GocCreateWith({TRUE})

\* RelistResult with the two alternatives of || in the other order
RelistResult_InboxFirst(fresh, target) ==
  IF FindExact(fresh, INBOX) # Undefined
  THEN FindExact(fresh, INBOX)
  ELSE FindLower(fresh, target)

\* RelistResult with the INBOX alternative left off
RelistResult_NoInbox(fresh, target) == FindLower(fresh, target)

\* fresh.find(by lowered name)?.id || fresh.find(l => l.name === 'INBOX')?.id
RelistResult(fresh, target) ==
  IF FindLower(fresh, target) # Undefined
  THEN FindLower(fresh, target)
  ELSE FindExact(fresh, INBOX)

\* GocRelist trying labels.create again when the re-listing holds no match
GocRelist_Retries ==
  /\ pc = "goc.relist"
  /\ LET target == ToLowerCase(labelName)
         found  == FindLower(labels[email], target)
     IN  /\ calls' = Append(calls, Call("goc.relist", CurrentMsg, labelName, found,
                                        MatchingIds(labels[email], target),
                                        ourIds, TRUE))
         /\ IF found # Undefined
            THEN Resolved(found)
            ELSE /\ pc' = "goc.create"
                 /\ UNCHANGED <<labelId, nameMap, ourIds>>
  /\ UNCHANGED <<failedJobs, provider, users, email, batch, idx, labelName, before, jobErr,
                 invoked, selected, cleanRuns, disturbed, runs, extCount, response, other, aux>>

\* getOrCreateLabel: the labels.list of the catch block answers
GocRelist ==
  /\ pc = "goc.relist"
  /\ LET target == ToLowerCase(labelName)
         id     == RelistResult(labels[email], target)
     IN  /\ calls' = Append(calls, Call("goc.relist", CurrentMsg, labelName, id,
                                        MatchingIds(labels[email], target),
                                        ourIds, TRUE))
         /\ Resolved(id)
  /\ UNCHANGED <<failedJobs, provider, users, email, batch, idx, labelName, before, jobErr,
                 invoked, selected, cleanRuns, disturbed, runs, extCount, response, other, aux>>

\* ModifiedLabels with the other user labels of the message taken off
ModifiedLabels_Replaces(ids, id) == (ids \cap {INBOX_ID, UNREAD_ID}) \cup {id}

\* ModifiedLabels with the message marked as read once it is labeled
ModifiedLabels_MarksRead(ids, id) == (ids \cup {id}) \ {UNREAD_ID}

\* requestBody: { addLabelIds: [labelId], removeLabelIds: [] }
ModifiedLabels(ids, id) == (ids \cup {id}) \ {}

\* messages.modify answers: on to the next message
MessagesModify ==
  /\ pc = "messages.modify"
  /\ msgLabels' = [msgLabels EXCEPT ![CurrentMsg] = ModifiedLabels(@, labelId)]
  /\ calls' = Append(calls,
                     WithRequestBody(Call("messages.modify", CurrentMsg, labelName,
                                          labelId, msgLabels'[CurrentMsg], ourIds, TRUE),
                                     {labelId}, {}))
  /\ NextMessage(batch, idx + 1)
  /\ UNCHANGED <<failedJobs, labels, msgBox, users, email, ourIds, nameMap, batch, labelName,
                 labelId, before, jobErr, invoked, selected, cleanRuns, disturbed,
                 runs, extCount, response, other, aux>>

\* an awaited call other than labels.create rejects (network, rate limit, no
\* token row): inside the try block the catch logs it and the function returns
Throw ==
  /\ pc \in { "getGmailService", "labels.list", "messages.list", "messages.get",
              "classify", "goc.list", "goc.relist", "messages.modify" }
  /\ calls' = Append(calls, Call(pc, IF idx \in 1..Len(batch) THEN CurrentMsg ELSE 0,
                                 labelName, Undefined, {}, ourIds, FALSE))
  /\ failedJobs' = failedJobs \cup {email}
  /\ IF InTry(pc)
     THEN /\ pc' = "returned"
          /\ jobErr' = "caught"
          /\ UNCHANGED <<users, cleanRuns>>
     ELSE /\ pc' = "idle"
          /\ jobErr' = "escaped"
          /\ users' = << >>
          /\ cleanRuns' = [cleanRuns EXCEPT ![email] = 0]
  /\ UNCHANGED <<provider, locals, before, invoked, selected, disturbed, runs,
                 extCount, response, other, aux>>

\* ------------------------------------------------------------------------
\* Environment
\* ------------------------------------------------------------------------
\* another process (the user, another client) creates a label in the mailbox
\* while processJobForEmail is at work on it
ExternalCreateLabel ==
  /\ extCount < MaxExt
  /\ pc \notin {"idle", "users.select"}
  /\ \E mb \in {email}, name \in ExtLabelNames :
       /\ ~CreateConflicts(labels[mb], name)
       /\ labels' = [labels EXCEPT ![mb] =
                       Append(@, [id |-> NewLabelId(@), name |-> name])]
       /\ cleanRuns' = [cleanRuns EXCEPT ![mb] = 0]
       /\ disturbed' = (disturbed \/ (mb = email /\ pc \notin {"idle", "users.select"}))
  /\ extCount' = extCount + 1
  /\ UNCHANGED <<msgBox, msgLabels, pc, users, locals, calls, before, jobErr,
                 invoked, selected, failedJobs, runs, response, other, aux>>

\* between two runs the user puts a label of the mailbox on one of its messages
ExternalLabelMessage ==
  /\ extCount < MaxExt
  /\ pc = "idle"
  /\ \E m \in DOMAIN msgBox :
       \E k \in 1..Len(labels[msgBox[m]]) :
         LET id == labels[msgBox[m]][k].id
         IN  /\ id >= FirstUserLabelId
             /\ id \notin msgLabels[m]
             /\ msgLabels' = [msgLabels EXCEPT ![m] = @ \cup {id}]
             /\ cleanRuns' = [cleanRuns EXCEPT ![msgBox[m]] = 0]
  /\ extCount' = extCount + 1
  /\ UNCHANGED <<labels, msgBox, pc, users, locals, calls, before, jobErr, invoked,
                 selected, disturbed, failedJobs, runs, response, other, aux>>

\* the event loop turns to the other runAll invocation: the timer or /run-now
\* may call runAll while an invocation awaits a call, and the answers to the
\* calls of two invocations arrive in any order
Switch ==
  /\ other.pc # "idle" \/ (pc # "idle" /\ runs < MaxRuns)
  /\ LET both == pc # "idle" /\ other.pc # "idle"
     IN  /\ other' = [Frame EXCEPT !.disturbed = @ \/ both]
         /\ disturbed' = (other.disturbed \/ both)
  /\ pc' = other.pc
  /\ users' = other.users
  /\ email' = other.email
  /\ ourIds' = other.ourIds
  /\ nameMap' = other.nameMap
  /\ batch' = other.batch
  /\ idx' = other.idx
  /\ labelName' = other.labelName
  /\ labelId' = other.labelId
  /\ calls' = other.calls
  /\ before' = other.before
  /\ jobErr' = other.jobErr
  /\ invoked' = other.invoked
  /\ selected' = other.selected
  /\ failedJobs' = other.failedJobs
  /\ response' = other.response
  /\ UNCHANGED <<provider, cleanRuns, runs, extCount, aux>>

Next ==
  \/ RunAll
  \/ SelectUsers
  \/ RunAllLoop
  \/ GetGmailService
  \/ LabelsList
  \/ MessagesList
  \/ MessagesGet
  \/ ClassifyEmail
  \/ GocList
  \/ GocCreate
  \/ GocRelist
  \/ MessagesModify
  \/ Throw
  \/ ExternalCreateLabel
  \/ ExternalLabelMessage

Spec == Init /\ [][Next]_vars

\* a backlog in the first mailbox, every call answered, the classifier always
\* giving the same category, nobody else at work, and the timer firing for ever
NextBacklog ==
  \/ RunAllUncounted
  \/ SelectUsersOk
  \/ RunAllLoop
  \/ GetGmailService
  \/ LabelsList
  \/ MessagesList
  \/ MessagesGet
  \/ ClassifyEmailSame
  \/ GocList
  \/ GocCreateOk
  \/ MessagesModify

SpecBacklog == InitBacklog /\ [][NextBacklog]_vars /\ WF_vars(NextBacklog)

\* ------------------------------------------------------------------------
\* extractPlainText
\* ------------------------------------------------------------------------
JsArray(items) == [kind |-> "array", items |-> items]

\* what an if or an && takes for true: no undefined, no empty string
Truthy(v) ==
  CASE v.kind = "undefined" -> FALSE
    [] v.kind = "string"    -> v.chars # << >>
    [] OTHER                -> TRUE

\* payload.body?.data
BodyData(payload) ==
  IF payload.body.kind = "undefined" THEN JsUndefined ELSE payload.body.data

\* the base64 alphabet; the decoder of Buffer also takes the URL-safe - and _
Digits == <<"0","1","2","3","4","5","6","7","8","9">>
Base64Chars == UpperChars \o LowerChars \o Digits \o <<"+", "/">>

IsBase64Char(c) ==
  c \in {"-", "_"} \/ \E i \in 1..Len(Base64Chars) : Base64Chars[i] = c

Sextet(c) ==
  CASE c = "-" -> 62
    [] c = "_" -> 63
    [] OTHER   -> (CHOOSE i \in 1..Len(Base64Chars) : Base64Chars[i] = c) - 1

\* the characters the decoder reads: those before the first padding character,
\* without the ones outside the alphabet
Significant(data) ==
  LET stop == IF \E i \in 1..Len(data) : data[i] = "="
              THEN CHOOSE i \in 1..Len(data) :
                     data[i] = "=" /\ \A j \in 1..(i-1) : data[j] # "="
              ELSE Len(data) + 1
  IN  SelectSeq(SubSeq(data, 1, stop - 1), IsBase64Char)

RECURSIVE SextetsValue(_, _)
\* the first k characters read as one number, six bits each
SextetsValue(s, k) ==
  IF k = 0 THEN 0 ELSE SextetsValue(s, k - 1) * 64 + Sextet(s[k])

\* Buffer.from(data, 'base64'): the whole bytes the characters hold
Base64Decode(data) ==
  LET s      == Significant(data)
      nbytes == (Len(s) * 6) \div 8
      whole  == SextetsValue(s, Len(s)) \div (2 ^ (Len(s) * 6 - nbytes * 8))
  IN  [i \in 1..nbytes |-> (whole \div (256 ^ (nbytes - i))) % 256]

\* .toString('utf8') of one byte: an ASCII letter, else the replacement character
Utf8Char(b) ==
  IF b \in 65..90 THEN UpperChars[b - 64]
  ELSE IF b \in 97..122 THEN LowerChars[b - 96]
  ELSE "?"

\* Buffer.from(payload.body.data, 'base64').toString('utf8')
DecodeBody(data) ==
  LET bytes == Base64Decode(data) IN [i \in 1..Len(bytes) |-> Utf8Char(bytes[i])]

\* the test that takes any node with body data for a text node
IsPlainWithData_AnyType(payload) == Truthy(BodyData(payload))

\* payload.mimeType === 'text/plain' && payload.body?.data
IsPlainWithData(payload) ==
  payload.mimeType = "text/plain" /\ Truthy(BodyData(payload))

RECURSIVE extractPlainText(_)
RECURSIVE FirstText(_, _)
\* for (const part of payload.parts) { const t = extractPlainText(part); if (t) return t; }
FirstText(parts, i) ==
  IF i > Len(parts) THEN << >>
  ELSE LET t == extractPlainText(parts[i])
       IN  IF t # << >> THEN t ELSE FirstText(parts, i + 1)

extractPlainText(payload) ==
  IF IsPlainWithData(payload)
  THEN DecodeBody(BodyData(payload).chars)
  ELSE IF Truthy(payload.parts)
       THEN FirstText(payload.parts.items, 1)
       ELSE << >>

\* body data a part may hold: none, the empty string, padding only, "h", "i"
BodyDatas ==
  { JsUndefined, JsString(<< >>), JsString(<<"=">>),
    JsString(<<"a","A","=","=">>), JsString(<<"a","Q","=","=">>) }

\* the parts without children: text/plain with or without a body and body
\* data, and text/html with the body data of "hi"
Leaves ==
  { [mimeType |-> "text/plain", body |-> JsUndefined, parts |-> JsUndefined] }
  \cup { [mimeType |-> "text/plain", body |-> [kind |-> "object", data |-> d],
          parts |-> JsUndefined] : d \in BodyDatas }
  \cup { [mimeType |-> "text/html",
          body |-> [kind |-> "object", data |-> JsString(<<"a","G","k","=">>)],
          parts |-> JsUndefined] }

\* a container part: it has child parts and a body without data
Multipart(children) ==
  [mimeType |-> "multipart/mixed", body |-> [kind |-> "object", data |-> JsUndefined],
   parts |-> JsArray(children)]

RECURSIVE PartsOfSize(_)
RECURSIVE PartListsOfSize(_)
\* the payload trees of n nodes: text parts are leaves, containers have children
PartsOfSize(n) ==
  (IF n = 1 THEN Leaves ELSE {})
  \cup { Multipart(children) : children \in PartListsOfSize(n - 1) }

\* the lists of payload trees with k nodes in all
PartListsOfSize(k) ==
  IF k = 0 THEN { << >> }
  ELSE UNION { { <<t>> \o rest : t \in PartsOfSize(j), rest \in PartListsOfSize(k - j) }
               : j \in 1..k }

\* msg.data.payload of a message fetched with format: 'full'
Payloads == UNION { PartsOfSize(n) : n \in 1..MaxNodes }

\* messages.get has answered with some payload; nothing is extracted yet
InitExtract ==
  /\ Started({}, {0})
  /\ msgPayload \in Payloads
  /\ body = JsUndefined
  /\ whitelist = Registry
  /\ tokens = [f \in TokenFiles |-> TokensOf(Undefined)]
  /\ callbacks = << >>

\* const body = extractPlainText(msg.data.payload)
ExtractPlainText ==
  /\ body.kind = "undefined"
  /\ body' = JsString(extractPlainText(msgPayload))
  /\ UNCHANGED <<provider, pc, users, locals, history, other, msgPayload, whitelist,
                 tokens, callbacks>>

NextExtract ==
  \/ ExtractPlainText

SpecExtract == InitExtract /\ [][NextExtract]_vars

\* ------------------------------------------------------------------------
\* The file-based variant (processJob): one mailbox, the owner of the token file
\* ------------------------------------------------------------------------
\* maxResults: 5
FILE_MAX_RESULTS == 5

\* messages.list({ userId: 'me', maxResults: 5 }): no label filter, no query
Listed(mb) ==
  FirstN(Descending({ m \in DOMAIN msgBox : msgBox[m] = mb }), FILE_MAX_RESULTS)

\* requestBody: { addLabelIds: [lid, 'UNREAD'], removeLabelIds: [] }
FileAddLabelIds(lid) == {lid, UNREAD_ID}

\* the label ids of a message after that request
FileModifiedLabels(ids, lid) == (ids \cup FileAddLabelIds(lid)) \ {}

\* loadWhitelist(): /auth/callback adds every authenticated address
Whitelist == Range(whitelist)

\* what the steps of processJob leave alone
FileFrame ==
  UNCHANGED <<users, invoked, selected, cleanRuns, disturbed, runs, extCount,
              response, other, before, email, aux>>

\* cron fires: processJob() runs for the mailbox whose token the file holds
ProcessJob ==
  /\ pc = "idle"
  /\ runs < MaxRuns
  /\ runs' = runs + 1
  /\ \E mb \in Range(Registry) : StartJob(mb)
  /\ UNCHANGED <<provider, users, selected, cleanRuns, failedJobs, extCount, other, aux>>

\* processJob has returned its summary, or [] from its catch
ProcessJobReturns ==
  /\ pc = "returned"
  /\ pc' = "idle"
  /\ UNCHANGED <<provider, users, locals, history, other, aux>>

\* getGmailService(): the token file exists
FileGetGmailService ==
  /\ pc = "getGmailService"
  /\ pc' = "getProfile"
  /\ calls' = Append(calls, Call("getGmailService", 0, << >>, Undefined, {}, {}, TRUE))
  /\ UNCHANGED <<provider, ourIds, nameMap, batch, idx, labelName, labelId, jobErr,
                 failedJobs>>
  /\ FileFrame

\* users.getProfile answers; a mailbox off the whitelist is skipped
FileGetProfile ==
  /\ pc = "getProfile"
  /\ pc' = IF email \in Whitelist THEN "messages.list" ELSE "returned"
  /\ calls' = Append(calls, Call("getProfile", 0, << >>, Undefined, {}, {}, TRUE))
  /\ UNCHANGED <<provider, ourIds, nameMap, batch, idx, labelName, labelId, jobErr,
                 failedJobs>>
  /\ FileFrame

\* messages.list answers
FileMessagesList ==
  /\ pc = "messages.list"
  /\ batch' = Listed(email)
  /\ NextMessage(batch', 1)
  /\ calls' = Append(calls, Call("messages.list", 0, << >>, Undefined,
                                 Range(batch'), {}, TRUE))
  /\ UNCHANGED <<provider, ourIds, nameMap, labelName, labelId, jobErr, failedJobs>>
  /\ FileFrame

\* messages.get answers: every listed message is classified
FileMessagesGet ==
  /\ pc = "messages.get"
  /\ pc' = "classify"
  /\ calls' = Append(calls, Call("messages.get", CurrentMsg, << >>, Undefined,
                                 msgLabels[CurrentMsg], {}, TRUE))
  /\ UNCHANGED <<provider, ourIds, nameMap, batch, idx, labelName, labelId, jobErr,
                 failedJobs>>
  /\ FileFrame

\* the chat completion answers: classifyEmail returns the content as it is
FileClassifyEmail ==
  /\ pc = "classify"
  /\ \E out \in ClassifierOutputs :
       /\ labelName' = out
       /\ calls' = Append(calls, Call("classify", CurrentMsg, out, Undefined,
                                      {}, {}, TRUE))
  /\ pc' = "goc.list"
  /\ UNCHANGED <<provider, ourIds, nameMap, batch, idx, labelId, jobErr, failedJobs>>
  /\ FileFrame

\* getOrCreateLabel: labels.list answers; the name is compared as it is
FileGocList ==
  /\ pc = "goc.list"
  /\ LET found == FindExact(labels[email], labelName)
     IN  /\ calls' = Append(calls, Call("goc.list", CurrentMsg, labelName, found,
                                        {}, {}, TRUE))
         /\ IF found # Undefined
            THEN /\ labelId' = found
                 /\ pc' = "messages.modify"
            ELSE /\ pc' = "goc.create"
                 /\ UNCHANGED labelId
  /\ UNCHANGED <<provider, ourIds, nameMap, batch, idx, labelName, jobErr, failedJobs>>
  /\ FileFrame

\* getOrCreateLabel: labels.create answers with the new label
FileGocCreate ==
  /\ pc = "goc.create"
  /\ LET new == NewLabelId(labels[email])
     IN  /\ labels' = [labels EXCEPT ![email] =
                         Append(@, [id |-> new, name |-> labelName])]
         /\ calls' = Append(calls, Call("goc.create", CurrentMsg, labelName, new,
                                        {}, {}, TRUE))
         /\ labelId' = new
  /\ pc' = "messages.modify"
  /\ UNCHANGED <<msgBox, msgLabels, ourIds, nameMap, batch, idx, labelName, jobErr,
                 failedJobs>>
  /\ FileFrame

\* messages.modify answers
FileMessagesModify ==
  /\ pc = "messages.modify"
  /\ msgLabels' = [msgLabels EXCEPT ![CurrentMsg] = FileModifiedLabels(@, labelId)]
  /\ calls' = Append(calls,
                     WithRequestBody(Call("messages.modify", CurrentMsg, labelName,
                                          labelId, msgLabels'[CurrentMsg], {}, TRUE),
                                     FileAddLabelIds(labelId), {}))
  /\ NextMessage(batch, idx + 1)
  /\ UNCHANGED <<labels, msgBox, ourIds, nameMap, batch, labelName, labelId, jobErr,
                 failedJobs>>
  /\ FileFrame

\* an awaited call rejects, or the token file is missing: the catch of
\* processJob logs the error and returns []
FileThrow ==
  /\ pc \in { "getGmailService", "getProfile", "messages.list", "messages.get",
              "classify", "goc.list", "goc.create", "messages.modify" }
  /\ calls' = Append(calls, Call(pc, IF idx \in 1..Len(batch) THEN CurrentMsg ELSE 0,
                                 labelName, Undefined, {}, {}, FALSE))
  /\ pc' = "returned"
  /\ jobErr' = "caught"
  /\ failedJobs' = failedJobs \cup {email}
  /\ UNCHANGED <<provider, ourIds, nameMap, batch, idx, labelName, labelId>>
  /\ FileFrame

\* the owner of a mailbox opens a message between two jobs: it is no longer unread
UserReadsMessage ==
  /\ pc = "idle"
  /\ extCount < MaxExt
  /\ extCount' = extCount + 1
  /\ \E m \in DOMAIN msgBox :
       /\ UNREAD_ID \in msgLabels[m]
       /\ msgLabels' = [msgLabels EXCEPT ![m] = @ \ {UNREAD_ID}]
  /\ UNCHANGED <<labels, msgBox, pc, users, locals, calls, before, jobErr, invoked,
                 selected, cleanRuns, disturbed, failedJobs, runs, response, other, aux>>

NextFile ==
  \/ ProcessJob
  \/ ProcessJobReturns
  \/ FileGetGmailService
  \/ FileGetProfile
  \/ FileMessagesList
  \/ FileMessagesGet
  \/ FileClassifyEmail
  \/ FileGocList
  \/ FileGocCreate
  \/ FileMessagesModify
  \/ FileThrow
  \/ UserReadsMessage

SpecFile == Init /\ [][NextFile]_vars

\* ------------------------------------------------------------------------
\* GET /auth/callback of the file-based variants
\* ------------------------------------------------------------------------
\* the variant that keeps one token file, and the one that keeps a file per user
Variants == {"token.json", "tokens/"}

\* wl.includes(email)
Includes(list, x) == \E i \in 1..Len(list) : list[i] = x

\* the whitelist with every authenticated address pushed
Subscribe_Always(wl, addr) == Append(wl, addr)

\* if (!wl.includes(email)) { wl.push(email); saveWhitelist(wl); }
Subscribe(wl, addr) == IF Includes(wl, addr) THEN wl ELSE Append(wl, addr)

\* what a step of a callback leaves alone
AuthFrame == UNCHANGED <<provider, pc, users, locals, history, other, msgPayload, body>>

\* a request arrives with the code Google issued for the owner of a mailbox; the
\* handler runs up to its first await, getToken(code)
AuthCallback ==
  /\ Len(callbacks) < MaxCallbacks
  /\ \E owner \in Mailboxes, variant \in Variants :
       callbacks' = Append(callbacks, [pc |-> "getToken", code |-> Len(callbacks) + 1,
                                       owner |-> owner, variant |-> variant])
  /\ UNCHANGED <<whitelist, tokens>>
  /\ AuthFrame

\* getToken answers: the single-file variant writes the tokens to TOKEN_PATH at
\* once; both then await getProfile
AuthGetToken ==
  /\ \E r \in 1..Len(callbacks) :
       /\ callbacks[r].pc = "getToken"
       /\ callbacks' = [callbacks EXCEPT ![r].pc = "getProfile"]
       /\ tokens' = IF callbacks[r].variant = "token.json"
                    THEN [tokens EXCEPT ![TOKEN_PATH] = TokensOf(callbacks[r].code)]
                    ELSE tokens
  /\ UNCHANGED whitelist
  /\ AuthFrame

\* getProfile answers with the address: the per-user variant writes the tokens
\* to the file of that address; both load the whitelist, push the address if
\* it is not included, save it, and redirect, with no await in between
AuthGetProfile ==
  /\ \E r \in 1..Len(callbacks) :
       /\ callbacks[r].pc = "getProfile"
       /\ callbacks' = [callbacks EXCEPT ![r].pc = "redirected"]
       /\ tokens' = IF callbacks[r].variant = "tokens/"
                    THEN [tokens EXCEPT ![callbacks[r].owner] = TokensOf(callbacks[r].code)]
                    ELSE tokens
       /\ whitelist' = Subscribe(whitelist, callbacks[r].owner)
  /\ AuthFrame

\* getToken or getProfile rejects: the catch answers 500
AuthFails ==
  /\ \E r \in 1..Len(callbacks) :
       /\ callbacks[r].pc \in {"getToken", "getProfile"}
       /\ callbacks' = [callbacks EXCEPT ![r].pc = "failed"]
  /\ UNCHANGED <<whitelist, tokens>>
  /\ AuthFrame

\* a fresh installation: no whitelist file, no token file, no request
InitAuth ==
  /\ Started({}, {0})
  /\ msgPayload = JsUndefined
  /\ body = JsUndefined
  /\ whitelist = << >>
  /\ tokens = [f \in TokenFiles |-> NoFile]
  /\ callbacks = << >>

NextAuth ==
  \/ AuthCallback
  \/ AuthGetToken
  \/ AuthGetProfile
  \/ AuthFails

SpecAuth == InitAuth /\ [][NextAuth]_vars

\* the cron-scheduled variant: the statements after the label preload are the
\* ones of the polling variant, and no run of the cron variant gets to them
NextCron ==
  \/ RunAll
  \/ SelectUsers
  \/ RunAllLoop
  \/ GetGmailService
  \/ LabelsListCron
  \/ Throw
  \/ ExternalCreateLabel
  \/ ExternalLabelMessage

SpecCron == Init /\ [][NextCron]_vars

\* the same backlog with calls that may fail, the timer firing at will
NextBatch ==
  \/ RunAllUncounted
  \/ SelectUsers
  \/ RunAllLoop
  \/ GetGmailService
  \/ LabelsList
  \/ MessagesList
  \/ MessagesGet
  \/ ClassifyEmailSame
  \/ GocList
  \/ GocCreate
  \/ GocRelist
  \/ MessagesModify
  \/ Throw

SpecBatch == InitBacklog /\ [][NextBatch]_vars

\* runAll invocations that may overlap, every call but labels.create answered
NextOverlap ==
  \/ RunAll
  \/ SelectUsersOk
  \/ RunAllLoop
  \/ GetGmailService
  \/ LabelsList
  \/ MessagesList
  \/ MessagesGet
  \/ ClassifyEmailEither
  \/ GocList
  \/ GocCreate
  \/ GocRelist
  \/ MessagesModify
  \/ Switch

\* the overlapping invocations are watched on the first mailbox, which holds
\* every message
InitOverlap == InitWith(1..OverlapMsgs, {OverlapMsgs})

SpecOverlap == InitOverlap /\ [][NextOverlap]_vars

\* ------------------------------------------------------------------------
\* Vocabulary of the properties
\* ------------------------------------------------------------------------
InJob == pc \notin {"idle", "users.select"}

CallIdx == 1..Len(calls)

\* the display name of a label id in a label list (<< >> if there is none)
NameOfId(list, id) ==
  IF \E i \in 1..Len(list) : list[i].id = id
  THEN list[CHOOSE i \in 1..Len(list) : list[i].id = id].name
  ELSE << >>

\* the ids among ids whose label has a display name of the vocabulary
VocabularyIds(list, ids) == { id \in ids : NameOfId(list, id) \in LABEL_VALUES }

\* content is v with white space before and after it
StripsTo(content, v) ==
  \E i \in 1..(Len(content) + 1), j \in 0..Len(content) :
    /\ SubSeq(content, i, j) = v
    /\ \A k \in 1..(i-1) : IsSpace(content[k])
    /\ \A k \in (j+1)..Len(content) : IsSpace(content[k])

\* the answered modify calls of this run
ModifyCalls == { i \in CallIdx : calls[i].op = "messages.modify" /\ calls[i].ok }

\* C1: a run of processJobForEmail that follows an undisturbed, error-free run
\* on the same mailbox issues no messages.modify call.
C1_SecondRunAppliesNothing ==
  (InJob /\ cleanRuns[email] >= 1) =>
    \A i \in CallIdx : calls[i].op # "messages.modify"

\* C2: a message that carried no vocabulary-named label when the run began and
\* that the run modified carries exactly one vocabulary-named label after the run.
C2_ExactlyOneManagedLabel ==
  pc = "returned" =>
    \A i \in ModifyCalls :
      VocabularyIds(before.labels[email], before.msgLabels[calls[i].msg]) = {}
        => Cardinality(VocabularyIds(labels[email], msgLabels[calls[i].msg])) = 1

\* the messages.get answers on which the duplicate guard fired
SkippedGets ==
  { i \in CallIdx : /\ calls[i].op = "messages.get"
                    /\ calls[i].ok
                    /\ calls[i].ids \cap calls[i].managed # {} }

\* C3 (as claimed): for a listed message that already carries a managed label id
\* the run makes no messages.get, no classifier and no messages.modify call.
C3_GuardMakesNoCall ==
  \A m \in Range(batch) :
    before.msgLabels[m] \cap OurIdsOf(before.labels[email]) # {}
      => \A i \in CallIdx : calls[i].msg # m

\* C3 (amended): for a message whose messages.get answer carries a managed label
\* id the run makes that one messages.get call and no classifier, no label
\* resolution and no messages.modify call.
C3_GuardSkipsClassifyAndModify ==
  \A i \in SkippedGets :
    \A j \in CallIdx :
      calls[j].msg = calls[i].msg => (j = i /\ calls[j].op = "messages.get")

\* C3 witness: a run returned after the guard skipped a message.
C3_Witness == pc = "returned" /\ jobErr = "none" /\ SkippedGets # {}

\* the state right after classifyEmail returned
JustClassified ==
  /\ calls # << >>
  /\ calls[Len(calls)].op = "classify"
  /\ calls[Len(calls)].ok

\* C4 (as claimed): classifyEmail returns the model's string when it is an exact
\* member of LABEL_VALUES and LABELS.spam for every other string.
C4_ClosedVocabularyExact ==
  JustClassified =>
    LET content == calls[Len(calls)].name
    IN  /\ content \in LABEL_VALUES => labelName = content
        /\ content \notin LABEL_VALUES => labelName = LABELS.spam

\* C4 (amended): classifyEmail returns the member of LABEL_VALUES that the
\* model's string is once surrounding white space is removed, and LABELS.spam
\* when there is no such member; its result is always a member of LABEL_VALUES.
C4_ClosedVocabularyTrimmed ==
  JustClassified =>
    LET content == calls[Len(calls)].name
    IN  /\ \A v \in LABEL_VALUES : StripsTo(content, v) => labelName = v
        /\ (\A v \in LABEL_VALUES : ~StripsTo(content, v)) => labelName = LABELS.spam
        /\ labelName \in LABEL_VALUES
        /\ pc \in {"goc.list", "messages.modify"}

\* C4 witness: the model's answer is a member only after trimming, and
\* classifyEmail returned that member.
C4_Witness ==
  /\ JustClassified
  /\ calls[Len(calls)].name \notin LABEL_VALUES
  /\ labelName = LABELS.urgent

\* C5: within one run labels.create is called at most once per category name.
C5_AtMostOneCreatePerName ==
  \A i, j \in CallIdx :
    (/\ calls[i].op = "goc.create"
     /\ calls[j].op = "goc.create"
     /\ calls[i].name = calls[j].name) => i = j

\* C5 witness: a create call conflicted, and two messages of the batch were
\* labeled for that one category.
C5_Witness ==
  /\ pc = "returned"
  /\ \E i, j, k \in CallIdx :
       /\ calls[i].op = "goc.create" /\ ~calls[i].ok
       /\ j \in ModifyCalls /\ k \in ModifyCalls /\ j # k
       /\ calls[j].name = calls[i].name
       /\ calls[k].name = calls[i].name

\* C6: no error thrown while a mailbox is processed leaves processJobForEmail,
\* and runAll invokes processJobForEmail for every mailbox it selected: the
\* mailboxes invoked so far and those still to come are the selected ones, so
\* that a completed runAll has invoked them all.
C6_TenantIsolation ==
  /\ jobErr # "escaped"
  /\ pc # "users.select" => invoked \o users = selected
  /\ (pc = "idle" /\ runs > 0) => invoked = selected

\* C6 witness: processing of the first mailbox threw, and the run of the second
\* mailbox went on to label a message.
C6_Witness ==
  /\ Registry[1] \in failedJobs
  /\ email = Registry[2]
  /\ pc = "returned"
  /\ jobErr = "none"
  /\ ModifyCalls # {}

\* the calls whose failure is an error of the message being handled
MessageCallOps ==
  {"messages.get", "classify", "goc.list", "goc.relist", "messages.modify"}

\* C7: when a call fails for a message of the batch, the next message of the
\* batch is still fetched in the same run.
C7_FailureSkipsOnlyThatMessage ==
  pc = "returned" =>
    \A k \in 1..(Len(batch) - 1) :
      (\E i \in CallIdx : /\ calls[i].msg = batch[k]
                          /\ calls[i].op \in MessageCallOps
                          /\ ~calls[i].ok)
        => \E j \in CallIdx : /\ calls[j].op = "messages.get"
                              /\ calls[j].msg = batch[k + 1]

\* the labels.create calls the provider refused because the name was taken
ConflictedCreates ==
  { i \in CallIdx : /\ calls[i].op = "goc.create"
                    /\ ~calls[i].ok
                    /\ calls[i].ids # {} }

\* C8: after labels.create failed on a name that exists, getOrCreateLabel lists
\* the labels again and, when that listing answers, returns the id of the label
\* with that name up to case; no error is raised and the message is modified
\* with that id.
C8_ConflictRecovery ==
  \A i \in ConflictedCreates :
    /\ i < Len(calls) =>
         /\ calls[i + 1].op = "goc.relist"
         /\ calls[i + 1].msg = calls[i].msg
         /\ calls[i + 1].ok =>
              /\ calls[i + 1].id \in calls[i].ids
              /\ ToLowerCase(NameOfId(labels[email], calls[i + 1].id))
                   = ToLowerCase(calls[i].name)
              /\ i + 1 = Len(calls) =>
                   /\ pc = "messages.modify"
                   /\ jobErr = "none"
                   /\ labelId = calls[i + 1].id
              /\ i + 1 < Len(calls) =>
                   /\ calls[i + 2].op = "messages.modify"
                   /\ calls[i + 2].msg = calls[i].msg
                   /\ calls[i + 2].ok =>
                        /\ calls[i + 2].id = calls[i + 1].id
                        /\ calls[i + 1].id \in msgLabels[calls[i].msg]
    /\ i = Len(calls) => pc = "goc.relist"

\* C8 witness: a create call conflicted with a label made by a racing process
\* and the message was labeled with that label's id.
C8_Witness ==
  \E i \in ConflictedCreates :
    /\ i + 2 <= Len(calls)
    /\ calls[i + 2].op = "messages.modify"
    /\ calls[i + 2].ok
    /\ calls[i + 2].id \in calls[i].ids
    /\ calls[i + 2].id >= FirstUserLabelId

\* a run that returned with every external call answered without error and
\* nobody else touching the mailbox meanwhile
AllSucceeded ==
  /\ pc = "returned"
  /\ jobErr = "none"
  /\ ~disturbed
  /\ \A i \in CallIdx : calls[i].ok

\* the messages.get answers on which the duplicate guard did not fire
PassedGets ==
  { i \in CallIdx : /\ calls[i].op = "messages.get"
                    /\ calls[i].ok
                    /\ calls[i].ids \cap calls[i].managed = {} }

ClassifyCallsOf(m) ==
  { i \in CallIdx : calls[i].op = "classify" /\ calls[i].msg = m }

CreateCallsOf(n) ==
  { i \in CallIdx : calls[i].op = "goc.create" /\ calls[i].name = n }

NamesOf(list) == { list[i].name : i \in 1..Len(list) }

\* the category the closed vocabulary gives a classifier answer, read exactly
ExactCategory(content) ==
  IF content \in LABEL_VALUES THEN content ELSE LABELS.spam

\* the category of a classifier answer once surrounding white space is removed
TrimmedCategory(content) ==
  IF \E v \in LABEL_VALUES : StripsTo(content, v)
  THEN CHOOSE v \in LABEL_VALUES : StripsTo(content, v)
  ELSE LABELS.spam

\* C9 (as claimed): in a run where every call succeeds, each message the guard
\* let through ends with the label whose display name is the classifier's
\* output if that output is in the vocabulary and the fallback name otherwise;
\* each such name that no label had is created by exactly one create call.
C9_EndToEndExactName ==
  AllSucceeded =>
    \A g \in PassedGets :
      /\ ClassifyCallsOf(calls[g].msg) # {}
      /\ \A c \in ClassifyCallsOf(calls[g].msg) :
           LET want == ExactCategory(calls[c].name)
           IN  /\ \E id \in msgLabels[calls[g].msg] :
                    NameOfId(labels[email], id) = want
               /\ want \notin NamesOf(before.labels[email])
                    => Cardinality(CreateCallsOf(want)) = 1

\* C9 (amended): in a run where every call succeeds, each message the guard let
\* through ends with a label whose display name equals, up to letter case, the
\* trimmed classifier output if that is in the vocabulary and the fallback name
\* otherwise; a label is created, by exactly one create call and under the
\* configured name, exactly for the names no label had up to case.
C9_EndToEndUpToCase ==
  AllSucceeded =>
    /\ \A g \in PassedGets :
         /\ Cardinality(ClassifyCallsOf(calls[g].msg)) = 1
         /\ \A c \in ClassifyCallsOf(calls[g].msg) :
              LET want == TrimmedCategory(calls[c].name)
              IN  /\ \E id \in msgLabels[calls[g].msg] :
                       ToLowerCase(NameOfId(labels[email], id)) = ToLowerCase(want)
                  /\ Cardinality(CreateCallsOf(want)) =
                       IF MatchingIds(before.labels[email], ToLowerCase(want)) = {}
                       THEN 1 ELSE 0
    /\ \A i \in CallIdx :
         calls[i].op = "goc.create" =>
           \E c \in CallIdx : /\ calls[c].op = "classify"
                              /\ calls[c].msg = calls[i].msg
                              /\ calls[i].name = TrimmedCategory(calls[c].name)

\* C9 witness: a run in which every call succeeded labeled two messages, one
\* with a newly created label and one with the fallback category.
C9_Witness ==
  /\ AllSucceeded
  /\ Cardinality(ModifyCalls) = 2
  /\ \E i \in CallIdx : calls[i].op = "goc.create" /\ calls[i].name = LABELS.urgent
  /\ \E i \in ModifyCalls : calls[i].name = LABELS.spam

\* the id of the INBOX label of a mailbox
InboxIdOf(list) ==
  CHOOSE id \in { list[i].id : i \in 1..Len(list) } : NameOfId(list, id) = INBOX

\* the answered re-listings of getOrCreateLabel that hold no label with the
\* requested name up to case
RelistsWithoutMatch ==
  { i \in CallIdx : /\ calls[i].op = "goc.relist"
                    /\ calls[i].ok
                    /\ calls[i].ids = {} }

\* C10: when labels.create failed and the re-listed labels hold no label with
\* the name up to case, getOrCreateLabel returns the id of the INBOX label, no
\* error is raised, and the message is then modified with that id.
C10_LastResortFallback ==
  \A i \in RelistsWithoutMatch :
    /\ i > 1
    /\ calls[i - 1].op = "goc.create"
    /\ ~calls[i - 1].ok
    /\ calls[i].id = InboxIdOf(labels[email])
    /\ i = Len(calls) =>
         /\ pc = "messages.modify"
         /\ jobErr = "none"
         /\ labelId = InboxIdOf(labels[email])
    /\ i < Len(calls) =>
         /\ calls[i + 1].op = "messages.modify"
         /\ calls[i + 1].msg = calls[i].msg
         /\ calls[i + 1].ok =>
              /\ calls[i + 1].id = InboxIdOf(labels[email])
              /\ InboxIdOf(labels[email]) \in msgLabels[calls[i].msg]

\* C10 witness: the fallback was taken and the modify call carried the INBOX id.
C10_Witness ==
  \E i \in RelistsWithoutMatch :
    /\ i < Len(calls)
    /\ calls[i + 1].op = "messages.modify"
    /\ calls[i + 1].ok
    /\ calls[i + 1].id = INBOX_ID

\* the log entries at which label resolution returned an id: a cache hit right
\* after classifyEmail, or a return of getOrCreateLabel
CacheHits ==
  { i \in CallIdx : calls[i].op = "classify" /\ calls[i].ok /\ calls[i].id # Undefined }

GocReturns ==
  { i \in CallIdx :
      \/ calls[i].op = "goc.list" /\ calls[i].ok /\ calls[i].id # Undefined
      \/ calls[i].op = "goc.create" /\ calls[i].ok
      \/ calls[i].op = "goc.relist" /\ calls[i].ok }

\* the category name a resolution was asked for
RequestedName(i) ==
  IF calls[i].op = "classify" THEN ClassifyResult(calls[i].name) ELSE calls[i].name

\* getOrCreateLabel returned from its catch block without a match
FallbackPath(i) ==
  /\ i \in RelistsWithoutMatch
  /\ i > 1
  /\ calls[i - 1].op = "goc.create"
  /\ ~calls[i - 1].ok

VocabularyUpToCase == { ToLowerCase(v) : v \in LABEL_VALUES }

C12_CreateNameInVocabulary ==
  /\ \A i \in CallIdx : calls[i].op = "goc.create" => calls[i].name \in LABEL_VALUES
  /\ InJob =>
       \A k \in 1..Len(labels[email]) :
         (\E i \in CallIdx : /\ calls[i].op = "goc.create"
                             /\ calls[i].ok
                             /\ calls[i].id = labels[email][k].id)
           => labels[email][k].name \in LABEL_VALUES

\* C12 witness: the classifier answered a string outside the vocabulary and a
\* label was created for the message.
C12_Witness ==
  \E c, i \in CallIdx :
    /\ calls[c].op = "classify"
    /\ \A v \in LABEL_VALUES : ~StripsTo(calls[c].name, v)
    /\ calls[i].op = "goc.create"
    /\ calls[i].ok
    /\ calls[i].msg = calls[c].msg

\* C13: the answer of /run-now holds, for every mailbox of the registry, the
\* list of the messages labeled with their categories, or a failure marker.
C13_RunNowReturnsSummary ==
  response.status = "ok" =>
    /\ "results" \in DOMAIN response
    /\ DOMAIN response.results = Range(selected)

\* the credential lookup of this processJobForEmail found no usable token
AuthFailed ==
  /\ calls # << >>
  /\ calls[1].op = "getGmailService"
  /\ ~calls[1].ok

\* C14: when the credential lookup fails, processJobForEmail makes no other
\* call, changes no message, returns without raising, and the next step of
\* runAll is the call of processJobForEmail for the next selected mailbox, or
\* its end when none is left.
C14_AuthFailureIsolation ==
  [][ AuthFailed =>
        /\ Len(calls) = 1
        /\ pc = "returned"
        /\ jobErr = "caught"
        /\ msgLabels = before.msgLabels
        /\ invoked \o users = selected
        /\ \/ pc' = pc /\ users' = users /\ calls' = calls
           \/ users # << >> /\ pc' = "getGmailService" /\ email' = Head(users)
                            /\ users' = Tail(users)
           \/ users = << >> /\ pc' = "idle" /\ invoked' = selected ]_vars

\* C14 witness: the lookup failed for the first mailbox, processJobForEmail
\* returned, and runAll is about to go on to the second.
C14_Witness ==
  /\ AuthFailed
  /\ pc = "returned"
  /\ email = Registry[1]
  /\ users = <<Registry[2]>>

\* C15: no step removes a label from a message, UNREAD included, and a message
\* the guard skipped keeps exactly the labels it had.
C15_AddOnly ==
  [][ /\ \A m \in Msgs : msgLabels[m] \subseteq msgLabels'[m]
      /\ \A i \in SkippedGets : calls' # << >> =>
           msgLabels'[calls[i].msg] = calls[i].ids ]_vars

\* C15 witness: a run that skipped one message and labeled another returned,
\* and both still carry INBOX and UNREAD.
C15_Witness ==
  /\ pc = "returned"
  /\ SkippedGets # {}
  /\ \E i \in ModifyCalls :
       /\ {INBOX_ID, UNREAD_ID} \subseteq msgLabels[calls[i].msg]
       /\ Cardinality(msgLabels[calls[i].msg]) > 2
  /\ \A i \in SkippedGets : {INBOX_ID, UNREAD_ID} \subseteq msgLabels[calls[i].msg]

\* message m carries a label with a vocabulary name, up to letter case
Labeled(m) ==
  \E id \in msgLabels[m] :
    ToLowerCase(NameOfId(labels[msgBox[m]], id)) \in VocabularyUpToCase

\* C16: with more unread inbox messages than a batch holds and nobody else at
\* work, repeated runs eventually give every unread message a managed label.
C16_BacklogDrains ==
  <>(\A m \in DOMAIN msgBox :
       (INBOX_ID \in msgLabels[m] /\ UNREAD_ID \in msgLabels[m]) => Labeled(m))

\* C17: at most one runAll invocation is in progress at any time.
C17_NoOverlappingRuns == ~(pc # "idle" /\ other.pc # "idle")

\* the run went on to classify the message of messages.get answer i
ClassifiedAfter(i) ==
  \/ i = Len(calls) /\ pc = "classify"
  \/ i < Len(calls) /\ calls[i + 1].op = "classify" /\ calls[i + 1].msg = calls[i].msg

\* the run made no further call for the message of messages.get answer i
SkippedAfter(i) ==
  /\ i = Len(calls) => pc \in {"messages.get", "returned"}
  /\ \A j \in CallIdx : j > i => calls[j].msg # calls[i].msg

\* C18: a message is skipped exactly when the label ids its messages.get answer
\* carries meet the managed set the run holds at that moment, whether in one id
\* or in several; otherwise it is classified.
C18_GuardIffIntersects ==
  \A i \in CallIdx :
    (calls[i].op = "messages.get" /\ calls[i].ok) =>
      /\ (calls[i].ids \cap calls[i].managed # {}) <=> SkippedAfter(i)
      /\ (calls[i].ids \cap calls[i].managed = {}) <=> ClassifiedAfter(i)

\* C18 witness: in one run a message carrying two managed labels was skipped
\* and a message carrying only unmanaged labels was classified.
C18_Witness ==
  \E i, j \in CallIdx :
    /\ calls[i].op = "messages.get" /\ calls[i].ok
    /\ Cardinality(calls[i].ids \cap calls[i].managed) >= 2
    /\ VocabularyIds(labels[email], calls[i].ids) = calls[i].ids \cap calls[i].managed
    /\ SkippedAfter(i)
    /\ calls[j].op = "messages.get" /\ calls[j].ok
    /\ calls[j].ids \cap calls[j].managed = {}
    /\ ClassifiedAfter(j)

\* C19: at every point of a run every id of ourIds is the id of a label of the
\* mailbox whose display name is an exact member of LABEL_VALUES.
C19_ManagedSetInVocabulary ==
  InJob => \A id \in ourIds : NameOfId(labels[email], id) \in LABEL_VALUES

\* the position of message m in the batch
PositionOf(m) == CHOOSE k \in 1..Len(batch) : batch[k] = m

\* C20: in a run that returned without error, every message of the batch that
\* comes after a message resolved by the last-resort fallback and that carried
\* no vocabulary-named label is classified and modified in that run.
C20_FallbackLeavesLaterMessages ==
  (pc = "returned" /\ jobErr = "none") =>
    \A i \in RelistsWithoutMatch :
      \A k \in 1..Len(batch) :
        (/\ k > PositionOf(calls[i].msg)
         /\ VocabularyIds(before.labels[email], before.msgLabels[batch[k]]) = {})
          => /\ ClassifyCallsOf(batch[k]) # {}
             /\ \E j \in ModifyCalls : calls[j].msg = batch[k]

\* the guard let message m through in the run whose call log is log
PassedIn(log, m) ==
  \E i \in 1..Len(log) : /\ log[i].op = "messages.get"
                         /\ log[i].ok
                         /\ log[i].msg = m
                         /\ log[i].ids \cap log[i].managed = {}

\* the answered calls of kind op for message m in a call log
CallsIn(log, op, m) ==
  { i \in 1..Len(log) : log[i].op = op /\ log[i].ok /\ log[i].msg = m }

\* two runAll invocations have both finished processJobForEmail for one mailbox
BothReturned == pc = "returned" /\ other.pc = "returned" /\ email = other.email

\* C21: when two overlapping runs on one mailbox both fetched a message before
\* it carried a label either of them manages, each of them calls the classifier
\* for it and each issues a messages.modify for it, and the message ends with
\* the labels both applied.
C21_OverlapDoubleClassifies ==
  BothReturned =>
    \A m \in DOMAIN msgBox :
      (PassedIn(calls, m) /\ PassedIn(other.calls, m)) =>
        /\ Cardinality(CallsIn(calls, "classify", m)) = 1
        /\ Cardinality(CallsIn(other.calls, "classify", m)) = 1
        /\ Cardinality(CallsIn(calls, "messages.modify", m)) = 1
        /\ Cardinality(CallsIn(other.calls, "messages.modify", m)) = 1
        /\ \A i \in CallsIn(calls, "messages.modify", m) : calls[i].id \in msgLabels[m]
        /\ \A i \in CallsIn(other.calls, "messages.modify", m) :
             other.calls[i].id \in msgLabels[m]

\* C21 witness: both runs classified the same message, the classifier answered
\* differently, and the message carries two vocabulary-named labels.
C21_Witness ==
  /\ BothReturned
  /\ \E m \in DOMAIN msgBox :
       /\ PassedIn(calls, m)
       /\ PassedIn(other.calls, m)
       /\ Cardinality(VocabularyIds(labels[email], msgLabels[m])) = 2

\* two runAll invocations are at work on the same mailbox
SameMailbox ==
  /\ pc \notin {"idle", "users.select"}
  /\ other.pc \notin {"idle", "users.select"}
  /\ email = other.email

\* the run of log a created a label and the create call of the run of log b for
\* the same name was refused as a conflict: b's re-listing returns a's label,
\* and b's messages.modify carries it
Converges(a, b) ==
  \A i \in 1..Len(a), j \in 1..Len(b) :
    (/\ a[i].op = "goc.create" /\ a[i].ok
     /\ b[j].op = "goc.create" /\ ~b[j].ok /\ b[j].ids # {}
     /\ a[i].name = b[j].name) =>
       /\ b[j].ids = {a[i].id}
       /\ j < Len(b) =>
            /\ b[j + 1].op = "goc.relist"
            /\ b[j + 1].id = a[i].id
            /\ j + 1 < Len(b) =>
                 /\ b[j + 2].op = "messages.modify"
                 /\ b[j + 2].id = a[i].id
       /\ Cardinality(MatchingIds(labels[email], ToLowerCase(a[i].name))) = 1

\* C30: when two overlapping runs on one mailbox both call labels.create for a
\* category and the provider refuses the second call as a name conflict, the
\* second run resolves the category to the id of the label the first created,
\* and the mailbox holds exactly one label of that name.
C30_RacingCreateConverges ==
  SameMailbox => (Converges(calls, other.calls) /\ Converges(other.calls, calls))

\* C30 witness: both runs returned, one having created the label and the other
\* having met the conflict, and both labeled with the same id.
C30_Witness ==
  /\ BothReturned
  /\ \E i \in CallIdx, j \in 1..Len(other.calls) :
       /\ calls[i].op = "goc.create" /\ ~calls[i].ok /\ calls[i].ids # {}
       /\ other.calls[j].op = "goc.create" /\ other.calls[j].ok
       /\ other.calls[j].name = calls[i].name
       /\ \E k \in ModifyCalls : calls[k].id = other.calls[j].id
       /\ \E k \in 1..Len(other.calls) :
            /\ other.calls[k].op = "messages.modify"
            /\ other.calls[k].id = other.calls[j].id

LabelIdsOf(list) == { list[i].id : i \in 1..Len(list) }

\* label id x was returned to this processJobForEmail call, before log entry i,
\* by labels.list or by getOrCreateLabel (its listings and its create call)
ObtainedBefore(x, i) ==
  \E j \in 1..(i - 1) :
    /\ calls[j].ok
    /\ \/ calls[j].op = "labels.list" /\ x \in calls[j].ids
       \/ calls[j].op \in {"goc.list", "goc.create", "goc.relist"} /\ calls[j].id = x

\* C22: every label id passed to messages.modify was returned by a labels.list
\* or labels.create of the same processJobForEmail call, is the id of a label of
\* the mailbox of that call, under the category's name up to case unless the
\* last resort gave INBOX, and the message is one of that mailbox; the cache and
\* the managed set hold ids of that mailbox only.
C22_NoCrossMailboxState ==
  /\ \A i \in ModifyCalls :
       /\ ObtainedBefore(calls[i].id, i)
       /\ calls[i].id \in LabelIdsOf(labels[email])
       /\ msgBox[calls[i].msg] = email
       /\ \/ ToLowerCase(NameOfId(labels[email], calls[i].id)) = ToLowerCase(calls[i].name)
          \/ \E j \in RelistsWithoutMatch : j < i /\ calls[j].name = calls[i].name
  /\ pc = "messages.modify" => ObtainedBefore(labelId, Len(calls) + 1)
  /\ InJob =>
       /\ \A n \in DOMAIN nameMap : nameMap[n] \in LabelIdsOf(labels[email])
       /\ ourIds \subseteq LabelIdsOf(labels[email])

\* C22 witness: in one runAll the first mailbox got a label created and applied,
\* and then the second mailbox got its own label created and applied.
C22_Witness ==
  /\ email = Registry[2]
  /\ pc = "returned"
  /\ invoked = Registry
  /\ Len(labels[Registry[1]]) > Len(before.labels[Registry[2]])
  /\ \E i \in ModifyCalls, j \in CallIdx :
       /\ calls[j].op = "goc.create" /\ calls[j].ok
       /\ calls[i].id = calls[j].id

\* the resolutions of category name v in this run
ResolutionsOf(v) == { j \in CacheHits \cup GocReturns : RequestedName(j) = v }

\* C23: when the mailbox holds a label whose name is the requested category
\* name up to letter case, resolving the category returns that label's id and
\* no labels.create call is made for it, at the first message that needs it
\* (the listing of getOrCreateLabel) and at every later one (the cache).
C23_CaseInsensitiveCollision ==
  /\ \A i \in CallIdx :
       (calls[i].op = "goc.list" /\ calls[i].ok /\ calls[i].ids # {}) =>
         /\ calls[i].id \in calls[i].ids
         /\ CreateCallsOf(calls[i].name) = {}
         /\ \A j \in ResolutionsOf(calls[i].name) :
              j > i => (calls[j].op = "classify" /\ calls[j].id = calls[i].id)
  /\ InJob =>
       \A j \in CallIdx :
         calls[j].op = "goc.create" =>
           MatchingIds(before.labels[email], ToLowerCase(calls[j].name)) = {}

\* C23 witness: the mailbox held the category's label in lower case; the first
\* message found it through the listing, the second through the cache, and both
\* were labeled with it.
C23_Witness ==
  /\ pc = "returned"
  /\ \E i \in CallIdx, j \in CacheHits :
       /\ calls[i].op = "goc.list" /\ calls[i].ok
       /\ calls[i].id \in LabelIdsOf(before.labels[email])
       /\ NameOfId(labels[email], calls[i].id) # calls[i].name
       /\ i < j
       /\ calls[j].id = calls[i].id
       /\ Cardinality({ k \in ModifyCalls : calls[k].id = calls[i].id }) = 2

\* the calls of kind op, answered or failed, made for message m
EntriesOf(op, m) == { i \in CallIdx : calls[i].op = op /\ calls[i].msg = m }

\* C24: one call of getOrCreateLabel makes at most one labels.create call and at
\* most two labels.list calls, the second only right after a failed create, and
\* then returns (the next call is messages.modify) or raises (no call follows).
C24_BoundedConflictProtocol ==
  /\ \A m \in Range(batch) :
       /\ Cardinality(EntriesOf("goc.list", m)) <= 1
       /\ Cardinality(EntriesOf("goc.create", m)) <= 1
       /\ Cardinality(EntriesOf("goc.relist", m)) <= 1
  /\ \A i \in CallIdx :
       /\ calls[i].op = "goc.create" =>
            /\ i > 1
            /\ calls[i - 1].op = "goc.list"
            /\ calls[i - 1].msg = calls[i].msg
            /\ calls[i - 1].ok
            /\ calls[i - 1].id = Undefined
       /\ calls[i].op = "goc.relist" =>
            /\ i > 1
            /\ calls[i - 1].op = "goc.create"
            /\ calls[i - 1].msg = calls[i].msg
            /\ ~calls[i - 1].ok
       /\ (calls[i].op \in {"goc.list", "goc.create", "goc.relist"} /\ i < Len(calls)) =>
            /\ calls[i].ok \/ calls[i].op = "goc.create"
            /\ calls[i + 1].msg = calls[i].msg
            /\ calls[i + 1].op =
                 IF calls[i].op = "goc.create" /\ ~calls[i].ok THEN "goc.relist"
                 ELSE IF calls[i].op = "goc.list" /\ calls[i].id = Undefined
                      THEN "goc.create"
                      ELSE "messages.modify"

\* C24 witness: a getOrCreateLabel call went through its longest path (list,
\* refused create, second list) for one message and came back for the next
\* message of the same run.
C24_Witness ==
  \E m, n \in Range(batch) :
    /\ m # n
    /\ EntriesOf("goc.relist", m) # {}
    /\ EntriesOf("goc.list", n) # {}
    /\ \A i \in EntriesOf("goc.relist", m), j \in EntriesOf("goc.list", n) : i < j

\* the calls of kind op, answered or failed, of this run
EntriesOfKind(op) == { i \in CallIdx : calls[i].op = op }

\* C25: one run lists at most MAX_RESULTS messages, each once; it makes at most
\* one credential lookup, one labels.list of its own and one messages.list; for
\* each listed message at most one messages.get, one classifier call and one
\* messages.modify; and a call that failed is followed by no call at all, or,
\* for labels.create, by the re-listing only.
C25_BoundedWorkNoRetry ==
  /\ Len(batch) <= MAX_RESULTS
  /\ \A j, k \in 1..Len(batch) : batch[j] = batch[k] => j = k
  /\ \A op \in {"getGmailService", "labels.list", "messages.list"} :
       Cardinality(EntriesOfKind(op)) <= 1
  /\ \A m \in Range(batch) :
       \A op \in {"messages.get", "classify", "messages.modify", "goc.create"} :
         Cardinality(EntriesOf(op, m)) <= 1
  /\ \A i \in CallIdx :
       ~calls[i].ok =>
         IF calls[i].op = "goc.create"
         THEN i < Len(calls) => calls[i + 1].op = "goc.relist"
         ELSE i = Len(calls) /\ pc = "returned"

\* C25 witness: the mailbox holds more unread messages than a batch, the run
\* listed MAX_RESULTS of them, labeled some, and ended on a failed call.
C25_Witness ==
  /\ pc = "returned"
  /\ Len(batch) = MAX_RESULTS
  /\ Cardinality({ m \in DOMAIN msgBox : msgBox[m] = email }) > MAX_RESULTS
  /\ Cardinality(ModifyCalls) >= 2
  /\ ~calls[Len(calls)].ok

\* the place of a call in the handling of one message
StepRank(op) ==
  CASE op = "messages.get"    -> 1
    [] op = "classify"        -> 2
    [] op = "goc.list"        -> 3
    [] op = "goc.create"      -> 4
    [] op = "goc.relist"      -> 5
    [] op = "messages.modify" -> 6
    [] OTHER                  -> 0

\* the calls made for a message of the batch
MessageEntries == { i \in CallIdx : StepRank(calls[i].op) > 0 }

\* the log of one job is in listing order, and in step order within a message
InListingOrder ==
  /\ \A i \in CallIdx \ MessageEntries : \A j \in MessageEntries : i < j
  /\ \A i \in MessageEntries : calls[i].msg \in Range(batch)
  /\ \A i, j \in MessageEntries :
       i < j =>
         /\ PositionOf(calls[i].msg) <= PositionOf(calls[j].msg)
         /\ calls[i].msg = calls[j].msg =>
              StepRank(calls[i].op) < StepRank(calls[j].op)
  /\ \A j \in MessageEntries :
       (j = 1 \/ calls[j - 1].msg # calls[j].msg) => calls[j].op = "messages.get"

\* the jobs of one runAll are started in registry order, one at a time
InRegistryOrder ==
  InJob => /\ invoked \o users = selected
           /\ email = invoked[Len(invoked)]

\* C26: within a job the calls are made message by message in listing order
\* (every call for message i precedes every call for message i+1), and for one
\* message in the order get, classifier, label resolution, modify; within a
\* runAll the job of a mailbox is started only when the users query has
\* answered or the job of the mailbox before it has returned.
C26_SequentialOrder ==
  /\ [](InListingOrder /\ InRegistryOrder)
  /\ [][(email' # email /\ pc' # "idle") =>
          (pc \in {"users.select", "returned"} /\ pc' = "getGmailService")]_vars

\* C26 witness: the job of the second mailbox has labeled two messages, after
\* the job of the first mailbox.
C26_Witness ==
  /\ pc = "returned"
  /\ invoked = Registry
  /\ Len(batch) = 2
  /\ \A m \in Range(batch) : EntriesOf("messages.modify", m) # {}

\* the unread inbox messages of the job's mailbox that carried no managed label
\* when the job started
Unmanaged ==
  { m \in DOMAIN msgBox :
      /\ msgBox[m] = email
      /\ {INBOX_ID, UNREAD_ID} \subseteq before.msgLabels[m]
      /\ before.msgLabels[m] \cap OurIdsOf(before.labels[email]) = {} }

\* C27: a job of the cron variant whose credential lookup and labels.list were
\* answered has, when it returns, asked for the unread messages, and, if no call
\* of it failed, listed every unread inbox message that carried no managed
\* label and labeled every listed message it found without a managed label.
C27_CronRunLabels ==
  (/\ pc = "returned"
   /\ \E i \in EntriesOfKind("getGmailService") : calls[i].ok
   /\ \E i \in EntriesOfKind("labels.list") : calls[i].ok)
  => /\ EntriesOfKind("messages.list") # {}
     /\ AllSucceeded =>
          /\ Unmanaged \subseteq Range(batch)
          /\ \A m \in Range(batch) :
               (\E i \in EntriesOf("messages.get", m) :
                  calls[i].ids \cap calls[i].managed = {})
               => EntriesOf("messages.modify", m) # {}

\* C28: every messages.modify request adds exactly one label id, the resolved
\* one, and removes none; UNREAD is not among the ids it adds, and the message
\* is unread after the call exactly if it was when the run fetched it.
C28_UnreadUntouched ==
  \A i \in ModifyCalls :
    /\ calls[i].add = {calls[i].id}
    /\ calls[i].remove = {}
    /\ UNREAD_ID \notin calls[i].add
    /\ \A j \in EntriesOf("messages.get", calls[i].msg) :
         (UNREAD_ID \in calls[i].ids) <=> (UNREAD_ID \in calls[j].ids)

\* the steps one message can take, and the steps one job can take
MessageSteps ==
  Cardinality({ "messages.get", "classify", "goc.list", "goc.create", "goc.relist",
                "messages.modify" })
JobSteps == MAX_RESULTS * MessageSteps + 5

\* an upper bound on the steps the job at hand has left
JobWeight ==
  CASE pc = "getGmailService" -> JobSteps - 1
    [] pc = "labels.list"     -> JobSteps - 2
    [] pc = "messages.list"   -> JobSteps - 3
    [] StepRank(pc) > 0       ->
         (Len(batch) - idx) * MessageSteps + (MessageSteps + 1 - StepRank(pc)) + 1
    [] pc = "returned"        -> 1
    [] OTHER                  -> 0

\* an upper bound on the steps the runAll invocation has left
Weight ==
  IF pc = "users.select"
  THEN Len(Registry) * JobSteps + 1
  ELSE Len(users) * JobSteps + JobWeight

\* a step of runAll or of the job it awaits
RunnerStep == pc # "idle" /\ (pc' # pc \/ calls' # calls \/ idx' # idx \/ users' # users)

\* the steps by which an invocation under way goes on
RunnerNext ==
  \/ SelectUsers
  \/ RunAllLoop
  \/ GetGmailService
  \/ LabelsList
  \/ MessagesList
  \/ MessagesGet
  \/ ClassifyEmail
  \/ GocList
  \/ GocCreate
  \/ GocRelist
  \/ MessagesModify

\* C29 as stated: a runAll invocation that has ended has invoked
\* processJobForEmail once for each registered mailbox, in registry order.
C29_EveryMailboxInvoked ==
  (pc = "idle" /\ runs > 0) => invoked = Registry

\* C29, amended: every runAll invocation terminates (while it is under way a
\* step of it is possible whenever the pending call answers, and each of its
\* steps lowers a natural-number bound on the steps left), and when it has
\* ended it has invoked processJobForEmail exactly once, in order, for each
\* mailbox the users query returned: every registered mailbox if the query
\* succeeded, none if it failed.
C29_RunAllCompletes ==
  /\ [][RunnerStep => (Weight' < Weight /\ Weight' >= 0)]_vars
  /\ [](pc # "idle" => ENABLED RunnerNext)
  /\ [](selected \in {Registry, << >>})
  /\ [](\E k \in 0..Len(selected) : invoked = SubSeq(selected, 1, k))
  /\ []((pc = "idle" /\ runs > 0) => invoked = selected)

\* C29 witness: a runAll invocation has ended after a job for each registered
\* mailbox, the first of which failed.
C29_Witness ==
  /\ pc = "idle"
  /\ runs > 0
  /\ invoked = Registry
  /\ Registry[1] \in failedJobs

RECURSIVE PreOrder(_)
RECURSIVE PreOrderAll(_, _)
\* the nodes of a payload tree, a node before its parts and a part with all
\* that is below it before the next part
PreOrder(node) ==
  <<node>> \o (IF node.parts.kind = "array" THEN PreOrderAll(node.parts.items, 1)
               ELSE << >>)

PreOrderAll(parts, i) ==
  IF i > Len(parts) THEN << >>
  ELSE PreOrder(parts[i]) \o PreOrderAll(parts, i + 1)

\* the text a node holds: its body data decoded, nothing if it has none
TextOf(node) ==
  IF BodyData(node).kind = "string" THEN DecodeBody(BodyData(node).chars) ELSE << >>

\* a text/plain node whose body data decodes to some text
PlainWithText(node) == node.mimeType = "text/plain" /\ TextOf(node) # << >>

\* C31: extractPlainText returns the decoded text of the first node of the
\* payload tree, in depth-first pre-order, that is text/plain and has body data
\* decoding to non-empty text; the empty string if the tree has no such node;
\* and what it returns is never the text of a node that is not text/plain.
C31_FirstPlainTextInPreOrder ==
  body.kind = "string" =>
    LET nodes == PreOrder(msgPayload)
        plain == { i \in 1..Len(nodes) : PlainWithText(nodes[i]) }
    IN  /\ plain # {} =>
             body.chars = TextOf(nodes[CHOOSE i \in plain : \A j \in plain : i <= j])
        /\ plain = {} => body.chars = << >>
        /\ body.chars # << >> =>
             \E i \in plain : TextOf(nodes[i]) = body.chars

\* C31 witness: the text returned is that of a text/plain part two levels
\* down, which the walk reaches before a text/plain part with another text one
\* level down.
C31_Witness ==
  /\ body.kind = "string"
  /\ msgPayload.parts.kind = "array"
  /\ Len(msgPayload.parts.items) = 2
  /\ LET first  == msgPayload.parts.items[1]
         second == msgPayload.parts.items[2]
     IN  /\ first.parts.kind = "array"
         /\ Len(first.parts.items) = 1
         /\ PlainWithText(first.parts.items[1])
         /\ PlainWithText(second)
         /\ TextOf(second) # TextOf(first.parts.items[1])
         /\ body.chars = TextOf(first.parts.items[1])

\* the requests that were answered with the redirect
Redirected == { r \in 1..Len(callbacks) : callbacks[r].pc = "redirected" }

\* the token file a request writes
TokenFileOf(r) ==
  IF callbacks[r].variant = "token.json" THEN TOKEN_PATH ELSE callbacks[r].owner

\* request r has just written its tokens
Writes(r) ==
  /\ r \in 1..Len(callbacks)
  /\ callbacks[r].pc = (IF callbacks[r].variant = "token.json" THEN "getToken"
                        ELSE "getProfile")
  /\ callbacks'[r].pc = (IF callbacks[r].variant = "token.json" THEN "getProfile"
                         ELSE "redirected")

\* C32: the whitelist holds every address at most once; a callback that
\* succeeds for an address already on the whitelist leaves the whitelist as it
\* is and has put its tokens in the place of the stored ones; a callback that
\* succeeds leaves its address on the whitelist; and no step takes an address
\* off the whitelist or moves one.
C32_WhitelistUnique ==
  /\ [](\A i, j \in 1..Len(whitelist) : whitelist[i] = whitelist[j] => i = j)
  /\ [](\A r \in Redirected : Includes(whitelist, callbacks[r].owner))
  /\ [][/\ Len(whitelist') >= Len(whitelist)
        /\ SubSeq(whitelist', 1, Len(whitelist)) = whitelist
        /\ \A r \in 1..MaxCallbacks :
             /\ Writes(r) => tokens'[TokenFileOf(r)] = TokensOf(callbacks[r].code)
             /\ (r \in Redirected' \ Redirected /\ Includes(whitelist, callbacks[r].owner))
                => whitelist' = whitelist]_vars

\* C32 witness: two callbacks succeeded for one address and one for another;
\* the whitelist holds the two addresses and the token file of the first holds
\* the tokens of the later callback.
C32_Witness ==
  /\ Len(whitelist) = 2
  /\ \E r1, r2, r3 \in Redirected :
       /\ r1 < r2
       /\ callbacks[r1].owner = callbacks[r2].owner
       /\ callbacks[r3].owner # callbacks[r1].owner
       /\ callbacks[r1].variant = "tokens/" /\ callbacks[r2].variant = "tokens/"
       /\ tokens[callbacks[r2].owner] = TokensOf(callbacks[r2].code)

====
